---- MODULE Spec2Model ----
(***************************************************************************)
(* Verification model of the chip9 virtual machine (gdziewon/chip9).       *)
(*                                                                         *)
(* Part 1: Timer and TimerClock (src/src/chip9/cpu/timer_clock.rs): the    *)
(* shared 8-bit counters, the background clock thread, the command channel *)
(* and the start/pause/resume/shutdown API of the owning thread.           *)
(* Part 2: the CPU fetch-decode-execute cycle (src/src/chip9/cpu.rs), the  *)
(* keyboard (src/src/chip8/keyboard.rs), the display                       *)
(* (src/src/chip8/display.rs) and the driver loop (src/src/app.rs).        *)
(***************************************************************************)
EXTENDS Integers, Sequences, FiniteSets, TLC

(***************************************************************************)
(* Bounds of the exploration.                                              *)
(***************************************************************************)
\* largest value the owning thread passes to Timer::load in ClockSpec
MaxLoad == 2
\* largest number of Pause/Resume commands waiting in the command channel
MaxQueue == 2

(***************************************************************************)
(* Program constants.                                                      *)
(***************************************************************************)
\* u8: the width of AtomicU8 (timer_clock.rs:12)
U8 == 256

\* the registry of the clock, in the order CPU::new registers the timers
timers == <<"dt", "st">>
TimerIds == {timers[k] : k \in 1..Len(timers)}

Max(a, b) == IF a > b THEN a ELSE b

VARIABLES
  \* Timer and TimerClock
  timer,      \* Timer.value of the delay and the sound timer
  tx,         \* TimerClock.tx is Some
  handle,     \* TimerClock.handle is Some
  chan,       \* the mpsc queue of TimerCmd not yet received
  connected,  \* a Sender of the channel is alive
  clk,        \* the background thread: position, paused, loop index, fetch_update's prev
  api,        \* position of the owning thread inside TimerClock's API
  \* history variables of the clock
  loaded,     \* the value of the last Timer::load of each timer (0 after new)
  ticks,      \* Timer::tick calls completed on each timer since its last load,
              \* counted up to one more than the loaded value
  round,      \* tick calls completed on each timer since the last timeout
  want,       \* the last Pause/Resume sent on the current channel was a Pause
  hasShutdown,\* a shutdown() call other than the one of Drop has returned
  \* CPU, Display, Keyboard
  regs,       \* CPU.regs: V0..VF
  idx,        \* CPU.idx
  pc,         \* CPU.pc
  sp,         \* CPU.sp
  stack,      \* CPU.stack
  mem,        \* CPU.mem: the bytes that differ from the initial image
  display,    \* Display.grid: the cells that are lit
  keyboard,   \* Keyboard.pressed
  pressed_keys, \* the keys given to the last Keyboard::set_pressed
  \* the driver (Emulator::run)
  drv,        \* position of the driver loop
  outcome,    \* how the run ended: the Result of run, or a panic
  checked,    \* the build has overflow checks (debug) or wraps (release)
  \* history variables of the CPU
  last,       \* the pc and the instruction word of the last CPU::execute
  mark,       \* the word, registers, index and grid at the start of the last
              \* instruction that wrote the memory or drew (Draw, StoreRegs, LoadBCD)
  calls       \* the active calls, outermost first: the address of each Call
              \* and the stack pointer it found

clockVars == <<timer, tx, handle, chan, connected, clk, api,
               loaded, ticks, round, want, hasShutdown>>

cpuVars == <<regs, idx, pc, sp, stack, mem, display, keyboard, pressed_keys,
             drv, outcome, checked, last, mark, calls>>

vars == <<clockVars, cpuVars>>

ClkIdle(at, paused) == [pc |-> at, paused |-> paused, i |-> 0, prev |-> 0]

ZeroRound == [t \in TimerIds |-> 0]

(***************************************************************************)
(* The machine: constants, and the CPU, Display and Keyboard of Chip9::new *)
(***************************************************************************)
\* cpu.rs:19-21
PROGRAM_START == 512
STACK_DEPTH == 16
SPRITE_SIZE == 5

\* display.rs:1-2
DISPLAY_WIDTH == 64
DISPLAY_HEIGHT == 32

\* the length of Keyboard.pressed (keyboard.rs:2)
NUM_KEYS == 16

\* the size of the address space: Addr is a 12-bit value
MEMORY_SIZE == 4096

\* the number of registers V0..VF, indexed by a Nib
NUM_REGS == 16

\* the font table: 16 digit sprites of SPRITE_SIZE bytes at the lowest addresses
FONT ==
  << 240, 144, 144, 144, 240,    32,  96,  32,  32, 112,
     240,  16, 240, 128, 240,   240,  16, 240,  16, 240,
     144, 144, 240,  16,  16,   240, 128, 240,  16, 240,
     240, 128, 240, 144, 240,   240,  16,  32,  64,  64,
     240, 144, 240, 144, 240,   240, 144, 240,  16, 240,
     240, 144, 240, 144, 144,   224, 144, 224, 144, 224,
     240, 128, 128, 128, 240,   224, 144, 144, 144, 224,
     240, 128, 240, 128, 240,   240, 128, 240, 128, 128 >>

\* the byte Memory::new puts at address a
InitialByte(a) == IF a < Len(FONT) THEN FONT[a + 1] ELSE 0

\* Emulator::run has not been entered: the clock is used through its API alone
NoDriver == "none"

\* Chip9::new without the start of the clock: CPU::new (cpu.rs:38-47),
\* Display::new, Keyboard::new
Chip9New ==
  /\ regs = [r \in 0..(NUM_REGS - 1) |-> 0]
  /\ idx = 0
  /\ pc = PROGRAM_START
  /\ sp = 0
  /\ stack = [k \in 0..(STACK_DEPTH - 1) |-> 0]
  /\ mem = {}
  /\ display = {}
  /\ keyboard = [k \in 0..(NUM_KEYS - 1) |-> FALSE]
  /\ pressed_keys = {}
  /\ outcome = [kind |-> "running", word |-> 0]
  /\ last = [pc |-> 0, word |-> 0]
  /\ mark = [word |-> 0, regs |-> regs, idx |-> idx, display |-> display]
  /\ calls = <<>>

(***************************************************************************)
(* Timer                                                                   *)
(***************************************************************************)
\* Timer::new
TimerNew == 0

Some(v) == [some |-> TRUE, val |-> v]
None == [some |-> FALSE, val |-> 0]

\* a closure without the v > 0 test: the release build wraps 0 to 255
TickUpdate_NoFloor(v) == Some((v - 1) % U8)

\* a closure that never decrements
TickUpdate_Never(v) == None

\* a closure that stops one tick early
TickUpdate_StopsAtOne(v) == IF v > 1 THEN Some(v - 1) ELSE None

\* the closure of Timer::tick
TickUpdate(v) == IF v > 0 THEN Some(v - 1) ELSE None

\* Timer::load(val): an atomic store
TimerLoad(t, v) ==
  /\ timer' = [timer EXCEPT ![t] = v]
  /\ loaded' = [loaded EXCEPT ![t] = v]
  /\ ticks' = [ticks EXCEPT ![t] = 0]

\* Timer::get(): an atomic load
TimerGet(t) == timer[t]

(***************************************************************************)
(* TimerClock: the API called by the owning thread                         *)
(***************************************************************************)
ClockInit ==
  /\ timer = [t \in TimerIds |-> TimerNew]
  /\ tx = FALSE
  /\ handle = FALSE
  /\ chan = <<>>
  /\ connected = FALSE
  /\ clk = ClkIdle("none", FALSE)
  /\ api = "idle"
  /\ loaded = [t \in TimerIds |-> TimerNew]
  /\ ticks = [t \in TimerIds |-> 0]
  /\ round = ZeroRound
  /\ want = FALSE
  /\ hasShutdown = FALSE
  /\ Chip9New
  /\ drv = NoDriver
  /\ checked = FALSE

\* mpsc::Sender::send: the command is queued unless the receiver is gone
Send(cmd) ==
  /\ chan' = IF clk.pc = "done" THEN chan ELSE Append(chan, cmd)
  /\ want' = IF cmd = "Shutdown" THEN want ELSE cmd = "Pause"

\* a start without the guard: it spawns whatever the clock holds
AlreadyStarted_Never == FALSE

\* the guard of TimerClock::start
AlreadyStarted == tx

\* TimerClock::start
Start ==
  /\ api = "idle"
  /\ IF AlreadyStarted
       THEN UNCHANGED <<tx, handle, chan, connected, clk, round, want>>
       ELSE /\ chan' = <<>>
            /\ want' = FALSE
            /\ connected' = TRUE
            /\ clk' = ClkIdle("recv", FALSE)
            /\ round' = ZeroRound
            /\ tx' = TRUE
            /\ handle' = TRUE
  /\ UNCHANGED <<timer, api, loaded, ticks, hasShutdown>>
  /\ UNCHANGED cpuVars

\* if let Some(tx) = &self.tx
HasSender == tx

\* TimerClock::pause
Pause ==
  /\ api = "idle"
  /\ Len(chan) < MaxQueue
  /\ IF HasSender THEN Send("Pause") ELSE UNCHANGED <<chan, want>>
  /\ UNCHANGED <<timer, tx, handle, connected, clk, api,
                 loaded, ticks, round, hasShutdown>>
  /\ UNCHANGED cpuVars

\* TimerClock::resume
Resume ==
  /\ api = "idle"
  /\ Len(chan) < MaxQueue
  /\ IF HasSender THEN Send("Resume") ELSE UNCHANGED <<chan, want>>
  /\ UNCHANGED <<timer, tx, handle, connected, clk, api,
                 loaded, ticks, round, hasShutdown>>
  /\ UNCHANGED cpuVars

\* a shutdown that waits for a thread whether or not one was spawned
MustJoin_Always(h) == TRUE

\* if let Some(handle) = self.handle.take()
MustJoin(h) == h

\* where shutdown() is when it has returned: Drop leaves no clock to call
Returned(fromDrop) == IF fromDrop THEN "dropped" ELSE "idle"

\* TimerClock::shutdown up to the join: tx.take(), the send of Shutdown, the
\* taken Sender going out of scope, handle.take(); without a handle it returns
ShutdownCall(fromDrop) ==
  /\ api = "idle"
  /\ tx' = FALSE
  /\ IF tx
       THEN Send("Shutdown") /\ connected' = FALSE
       ELSE UNCHANGED <<chan, want, connected>>
  /\ handle' = FALSE
  /\ IF MustJoin(handle)
       THEN /\ api' = IF fromDrop THEN "drop_join" ELSE "join"
            /\ UNCHANGED hasShutdown
       ELSE /\ api' = Returned(fromDrop)
            /\ hasShutdown' = (hasShutdown \/ ~fromDrop)
  /\ UNCHANGED <<timer, clk, loaded, ticks, round>>

\* an explicit call of TimerClock::shutdown (CPU::shutdown)
Shutdown ==
  /\ drv = NoDriver
  /\ ShutdownCall(FALSE)
  /\ UNCHANGED cpuVars

\* impl Drop for TimerClock: the owner of the clock lets go of it, directly
\* or when Emulator::run has returned and the Chip9 goes out of scope
Drop ==
  /\ drv \in {NoDriver, "exit"}
  /\ ShutdownCall(TRUE)
  /\ UNCHANGED cpuVars

\* a shutdown that detaches the thread instead of joining it
JoinReady_NoWait == TRUE

\* JoinHandle::join returns once the thread has finished
JoinReady == clk.pc = "done"

\* TimerClock::shutdown: handle.join() and the return
ShutdownJoin ==
  /\ api \in {"join", "drop_join"}
  /\ JoinReady
  /\ api' = Returned(api = "drop_join")
  /\ hasShutdown' = (hasShutdown \/ api = "join")
  /\ UNCHANGED <<timer, tx, handle, chan, connected, clk,
                 loaded, ticks, round, want>>
  /\ UNCHANGED cpuVars

\* Timer::load called by the owning thread (CPU::set_delay, CPU::set_sound)
Load ==
  /\ api = "idle"
  /\ \E t \in TimerIds, v \in 0..MaxLoad : TimerLoad(t, v)
  /\ UNCHANGED <<tx, handle, chan, connected, clk, api,
                 round, want, hasShutdown>>
  /\ UNCHANGED cpuVars

(***************************************************************************)
(* TimerClock: the background thread spawned by start                      *)
(***************************************************************************)
\* a channel that hands out the newest command first
Dequeue_Newest(q) == [cmd |-> q[Len(q)], rest |-> SubSeq(q, 1, Len(q) - 1)]

\* recv_timeout on a non-empty queue: the oldest command
Dequeue(q) == [cmd |-> Head(q), rest |-> Tail(q)]

ClkRecv(cmd) ==
  /\ clk.pc = "recv"
  /\ chan # <<>>
  /\ Dequeue(chan).cmd = cmd
  /\ chan' = Dequeue(chan).rest
  /\ UNCHANGED <<timer, tx, handle, connected, api,
                 loaded, ticks, round, want, hasShutdown>>
  /\ UNCHANGED cpuVars

\* Ok(TimerCmd::Pause) => paused = true
ClkRecvPause == ClkRecv("Pause") /\ clk' = [clk EXCEPT !.paused = TRUE]

\* Ok(TimerCmd::Resume) => paused = false
ClkRecvResume == ClkRecv("Resume") /\ clk' = [clk EXCEPT !.paused = FALSE]

\* Ok(TimerCmd::Shutdown) => break
ClkRecvShutdown == ClkRecv("Shutdown") /\ clk' = ClkIdle("done", clk.paused)

\* a timeout branch that ignores the paused flag
TicksApplied_IgnorePause(paused) == TRUE

\* whether the timeout branch runs the for loop over the timers
TicksApplied(paused) == ~paused

\* recv_timeout returns Err: Timeout while a Sender lives, Disconnected otherwise
ClkRecvErr ==
  /\ clk.pc = "recv"
  /\ chan = <<>>
  /\ IF connected
       THEN /\ round' = ZeroRound
            /\ clk' = IF TicksApplied(clk.paused) /\ Len(timers) > 0
                        THEN [clk EXCEPT !.pc = "tick", !.i = 1]
                        ELSE clk
       ELSE /\ clk' = ClkIdle("done", clk.paused)
            /\ UNCHANGED round
  /\ UNCHANGED <<timer, tx, handle, chan, connected, api,
                 loaded, ticks, want, hasShutdown>>
  /\ UNCHANGED cpuVars

\* the thread after t.tick() returned: the next timer, or back to recv_timeout
AfterTick == IF clk.i < Len(timers)
               THEN [clk EXCEPT !.pc = "tick", !.i = clk.i + 1, !.prev = 0]
               ELSE ClkIdle("recv", clk.paused)

\* Timer::tick on t returns
TickDone(t) ==
  /\ clk' = AfterTick
  /\ ticks' = [ticks EXCEPT ![t] = IF @ <= loaded[t] THEN @ + 1 ELSE @]
  /\ round' = [round EXCEPT ![t] = IF @ < 2 THEN @ + 1 ELSE @]

\* fetch_update continues with the value cur it has just read: the closure
\* gives the value to exchange, or None and tick returns
TickRead(t, cur) ==
  IF TickUpdate(cur).some
    THEN /\ clk' = [clk EXCEPT !.pc = "cas", !.prev = cur]
         /\ UNCHANGED <<ticks, round>>
    ELSE TickDone(t)

\* fetch_update: the initial load of the current value
ClkTickLoad ==
  /\ clk.pc = "tick"
  /\ TickRead(timers[clk.i], timer[timers[clk.i]])
  /\ UNCHANGED <<timer, tx, handle, chan, connected, api,
                 loaded, want, hasShutdown>>
  /\ UNCHANGED cpuVars

\* a naive read-then-write: the store happens whatever the counter holds now
CasSucceeds_Naive(cur, prev) == TRUE

\* whether the compare_exchange of fetch_update stores its new value
CasSucceeds(cur, prev) == cur = prev

\* fetch_update: compare_exchange_weak(prev, next); a failed exchange hands
\* back the current value (a spurious failure leaves the state as it is)
ClkTickCAS ==
  /\ clk.pc = "cas"
  /\ LET t == timers[clk.i]
     IN IF CasSucceeds(timer[t], clk.prev)
          THEN /\ timer' = [timer EXCEPT ![t] = TickUpdate(clk.prev).val % U8]
               /\ TickDone(t)
          ELSE /\ TickRead(t, timer[t])
               /\ UNCHANGED timer
  /\ UNCHANGED <<tx, handle, chan, connected, api,
                 loaded, want, hasShutdown>>
  /\ UNCHANGED cpuVars

ClkStep ==
  \/ ClkRecvPause
  \/ ClkRecvResume
  \/ ClkRecvShutdown
  \/ ClkRecvErr
  \/ ClkTickLoad
  \/ ClkTickCAS

ApiStep ==
  \/ Start
  \/ Pause
  \/ Resume
  \/ Shutdown
  \/ Drop
  \/ ShutdownJoin
  \/ Load

ClockNext == ApiStep \/ ClkStep

ClockSpec == ClockInit /\ [][ClockNext]_vars

\* the scheduler runs the background thread; the owning thread finishes a shutdown it began
ClockFairSpec ==
  /\ ClockSpec
  /\ WF_vars(ClkStep)
  /\ WF_vars(ShutdownJoin)

TypeOK ==
  /\ timer \in [TimerIds -> 0..(U8 - 1)]
  /\ tx \in BOOLEAN /\ handle \in BOOLEAN /\ connected \in BOOLEAN
  /\ clk.pc \in {"none", "recv", "tick", "cas", "done"}
  /\ api \in {"idle", "join", "drop_join", "dropped"}
  /\ regs \in [0..(NUM_REGS - 1) -> 0..(U8 - 1)]
  /\ idx \in 0..(MEMORY_SIZE - 1)
  /\ pc \in 0..(MEMORY_SIZE - 1)
  /\ sp \in 0..(U8 - 1)
  /\ stack \in [0..(STACK_DEPTH - 1) -> 0..(MEMORY_SIZE - 1)]
  /\ \A p \in mem : p[1] \in 0..(MEMORY_SIZE - 1) /\ p[2] \in 0..(U8 - 1)
  /\ display \subseteq (0..(DISPLAY_WIDTH - 1)) \X (0..(DISPLAY_HEIGHT - 1))
  /\ keyboard \in [0..(NUM_KEYS - 1) -> BOOLEAN]
  /\ pressed_keys \subseteq 0..(NUM_KEYS - 1)
  /\ drv \in {NoDriver, "load", "start", "poll", "exec", "exit"}

(***************************************************************************)
(* Part 2.  Addr, Nib, Registers, Memory, OpCode                           *)
(***************************************************************************)
\* Addr: a 12-bit value; From masks a u16, Add and Sub wrap at MEMORY_SIZE
AddrFrom(v) == v % MEMORY_SIZE
AddrAdd(a, n) == (a + n) % MEMORY_SIZE
AddrSub(a, n) == (a - n) % MEMORY_SIZE

\* u8 arithmetic: wrapping_add, overflowing_add, overflowing_sub
WrappingAdd(a, b) == (a + b) % U8
OverflowingAdd(a, b) == [val |-> (a + b) % U8, flag |-> a + b >= U8]
OverflowingSub(a, b) == [val |-> (a - b) % U8, flag |-> a < b]
BoolToU8(b) == IF b THEN 1 ELSE 0

\* bit n (0 = least significant) of v
Bit(v, n) == (v \div (2 ^ n)) % 2

\* the u8 operators &, | and ^, bit by bit
BitAnd(a, b) ==
  LET s[n \in 0..8] == IF n = 8 THEN 0 ELSE Bit(a, n) * Bit(b, n) * (2 ^ n) + s[n + 1]
  IN s[0]
BitXor(a, b) ==
  LET s[n \in 0..8] == IF n = 8 THEN 0 ELSE ((Bit(a, n) + Bit(b, n)) % 2) * (2 ^ n) + s[n + 1]
  IN s[0]
BitOr(a, b) == a + b - BitAnd(a, b)

\* Registers::set_flag: VF := v
SetFlag(r, v) == [r EXCEPT ![15] = v]

\* Registers::v0
V0(r) == r[0]

\* Memory::read_byte on the bytes m that differ from the initial image
ReadByte(m, a) ==
  IF \E p \in m : p[1] = a
    THEN (CHOOSE p \in m : p[1] = a)[2]
    ELSE InitialByte(a)

\* Memory::write_byte
WriteByte(m, a, v) ==
  {p \in m : p[1] # a} \cup (IF v = InitialByte(a) THEN {} ELSE {<<a, v>>})

\* Memory::get_instruction: two consecutive bytes, big-endian
GetInstruction(m, a) == ReadByte(m, a) * 256 + ReadByte(m, AddrAdd(a, 1))

\* the room for a program: MEMORY_SIZE - PROGRAM_START bytes
ProgramFits(bytes) == Len(bytes) <= MEMORY_SIZE - PROGRAM_START

\* Memory::load_from_file: the image is written verbatim from PROGRAM_START on
LoadBytes(bytes) ==
  {<<PROGRAM_START + k - 1, bytes[k]>> :
     k \in {j \in 1..Len(bytes) : bytes[j] # InitialByte(PROGRAM_START + j - 1)}}

\* the nibbles and fields of an instruction word
Nibble(word, k) == (word \div (16 ^ k)) % 16
LowByte(word) == word % 256
LowAddr(word) == word % MEMORY_SIZE

\* an OpCode value: the variant and the operands of the word
Op(kind, word) ==
  [kind |-> kind, vx |-> Nibble(word, 2), vy |-> Nibble(word, 1),
   n |-> Nibble(word, 0), byte |-> LowByte(word), addr |-> LowAddr(word)]

Unrecognized == "UnrecognizedOpcode"

\* the variant of the 8xy_ family selected by the last nibble
DecodeArith(n) ==
  CASE n = 0 -> "LoadReg"
    [] n = 1 -> "OrReg"
    [] n = 2 -> "AndReg"
    [] n = 3 -> "XorReg"
    [] n = 4 -> "AddReg"
    [] n = 5 -> "SubReg"
    [] n = 6 -> "ShiftRight"
    [] n = 7 -> "SubNot"
    [] n = 14 -> "ShiftLeft"
    [] OTHER -> Unrecognized

\* the variant of the Fx__ family selected by the low byte
DecodeMisc(byte) ==
  CASE byte = 7 -> "LoadDelay"
    [] byte = 10 -> "WaitKey"
    [] byte = 21 -> "SetDelay"
    [] byte = 24 -> "SetSound"
    [] byte = 30 -> "AddToIndex"
    [] byte = 41 -> "LoadFont"
    [] byte = 51 -> "LoadBCD"
    [] byte = 85 -> "StoreRegs"
    [] byte = 101 -> "LoadRegs"
    [] OTHER -> Unrecognized

\* the variant OpCode::decode gives a word, or Unrecognized
DecodeKind(word) ==
  LET top == Nibble(word, 3)
      n == Nibble(word, 0)
      byte == LowByte(word)
  IN CASE top = 0 -> (CASE word = 0 -> "NoOp"
                        [] word = 224 -> "ClearScreen"
                        [] word = 238 -> "Return"
                        [] OTHER -> Unrecognized)
       [] top = 1 -> "Jump"
       [] top = 2 -> "Call"
       [] top = 3 -> "SkipEqualByte"
       [] top = 4 -> "SkipNotEqualByte"
       [] top = 5 -> IF n = 0 THEN "SkipEqualReg" ELSE Unrecognized
       [] top = 6 -> "LoadByte"
       [] top = 7 -> "AddByte"
       [] top = 8 -> DecodeArith(n)
       [] top = 9 -> IF n = 0 THEN "SkipNotEqualReg" ELSE Unrecognized
       [] top = 10 -> "LoadIndex"
       [] top = 11 -> "JumpV0"
       [] top = 12 -> "RandomByte"
       [] top = 13 -> "Draw"
       [] top = 14 -> (CASE byte = 158 -> "SkipKeyPressed"
                         [] byte = 161 -> "SkipKeyNotPressed"
                         [] OTHER -> Unrecognized)
       [] OTHER -> DecodeMisc(byte)

\* OpCode::decode
Decode(word) == Op(DecodeKind(word), word)

(***************************************************************************)
(* Display and Keyboard                                                    *)
(***************************************************************************)
\* Display::clear
DisplayClear == {}

\* Display::draw: the bits of the sprite are XORed onto the grid, most
\* significant bit first, wrapping at the edges; the result is the new grid
\* and whether a lit cell was turned off.  A sprite is 8 columns by at most
\* 15 rows, so the loop visits no cell twice and its order does not matter.
\* a draw that drops the pixels beyond the right and bottom edges
DisplayDraw_Clip(grid, horizontal_pos, vertical_pos, sprite) ==
  LET set == {c \in {<<horizontal_pos + i, vertical_pos + j>> :
                       <<i, j>> \in {q \in (0..7) \X (0..(Len(sprite) - 1)) :
                                       Bit(sprite[q[2] + 1], 7 - q[1]) = 1}} :
                c[1] < DISPLAY_WIDTH /\ c[2] < DISPLAY_HEIGHT}
  IN [grid |-> (grid \ set) \cup (set \ grid),
      collision |-> set \cap grid # {}]

\* a draw that lights pixels without ever turning one off
DisplayDraw_Or(grid, horizontal_pos, vertical_pos, sprite) ==
  LET set == {<<(horizontal_pos + i) % DISPLAY_WIDTH,
                (vertical_pos + j) % DISPLAY_HEIGHT>> :
                <<i, j>> \in {q \in (0..7) \X (0..(Len(sprite) - 1)) :
                                Bit(sprite[q[2] + 1], 7 - q[1]) = 1}}
  IN [grid |-> grid \cup set,
      collision |-> set \cap grid # {}]

DisplayDraw(grid, horizontal_pos, vertical_pos, sprite) ==
  LET set == {<<(horizontal_pos + i) % DISPLAY_WIDTH,
                (vertical_pos + j) % DISPLAY_HEIGHT>> :
                <<i, j>> \in {q \in (0..7) \X (0..(Len(sprite) - 1)) :
                                Bit(sprite[q[2] + 1], 7 - q[1]) = 1}}
  IN [grid |-> (grid \ set) \cup (set \ grid),
      collision |-> set \cap grid # {}]

\* a set_pressed that does not release the keys pressed before
SetPressed_Sticky(keys) ==
  [k \in 0..(NUM_KEYS - 1) |-> keyboard[k] \/ k \in keys]

\* Keyboard::set_pressed: every key is released, then the listed keys below
\* NUM_KEYS are pressed
SetPressed(keys) == [k \in 0..(NUM_KEYS - 1) |-> k \in keys]

\* a lookup that takes the key number modulo the length of the table
IsKeyPressed_Masked(kb, chip8_key) == kb[chip8_key % NUM_KEYS]

\* Keyboard::is_key_pressed: a key number outside the table is not pressed
IsKeyPressed(kb, chip8_key) == IF chip8_key \in DOMAIN kb THEN kb[chip8_key] ELSE FALSE

\* Keyboard::get_key_press: the position of the first pressed key
GetKeyPress(kb) ==
  IF \E k \in DOMAIN kb : kb[k]
    THEN Some(CHOOSE k \in DOMAIN kb : kb[k] /\ \A h \in DOMAIN kb : kb[h] => k <= h)
    ELSE None

(***************************************************************************)
(* CPU: the instructions, as functions of the machine state c              *)
(***************************************************************************)
\* the CPU and the display it draws on, as one value
Machine ==
  [regs |-> regs, idx |-> idx, pc |-> pc, sp |-> sp, stack |-> stack,
   mem |-> mem, display |-> display, panicked |-> FALSE]

\* the thread panics: the instruction stops where it is
Panic(c) == [c EXCEPT !.panicked = TRUE]

\* a fetch that leaves pc at the instruction
Fetch_NoAdvance(c) ==
  [word |-> GetInstruction(c.mem, c.pc),
   cpu |-> c]

\* CPU::fetch up to the decode: the word at pc, and pc += 2
Fetch(c) ==
  [word |-> GetInstruction(c.mem, c.pc),
   cpu |-> [c EXCEPT !.pc = AddrAdd(c.pc, 2)]]

\* self.sp -= 1 on a u8: below 0 a checked build panics, an unchecked one wraps
SpDecrement(c, chk) ==
  IF c.sp > 0 THEN [c EXCEPT !.sp = c.sp - 1]
  ELSE IF chk THEN Panic(c) ELSE [c EXCEPT !.sp = U8 - 1]

\* self.sp += 1 on a u8
SpIncrement(c, chk) ==
  IF c.sp < U8 - 1 THEN [c EXCEPT !.sp = c.sp + 1]
  ELSE IF chk THEN Panic(c) ELSE [c EXCEPT !.sp = 0]

\* indexing the stack array: an index of STACK_DEPTH or more panics
StackInBounds(k) == k < STACK_DEPTH

return_subroutine(c, chk) ==
  IF StackInBounds(c.sp)
    THEN SpDecrement([c EXCEPT !.pc = c.stack[c.sp]], chk)
    ELSE Panic(c)

cleared_screen(c) == [c EXCEPT !.display = DisplayClear]

jump_addr(c, addr) == [c EXCEPT !.pc = addr]

call_addr(c, addr, chk) ==
  LET c1 == SpIncrement(c, chk)
  IN IF c1.panicked THEN c1
     ELSE IF StackInBounds(c1.sp)
       THEN [c1 EXCEPT !.stack[c1.sp] = c1.pc, !.pc = addr]
       ELSE Panic(c1)

\* if cond { self.pc += 2 }
SkipIf(c, cond) == IF cond THEN [c EXCEPT !.pc = AddrAdd(c.pc, 2)] ELSE c

skip_eq_byte(c, vx, byte) == SkipIf(c, c.regs[vx] = byte)
skip_neq_byte(c, vx, byte) == SkipIf(c, c.regs[vx] # byte)
skip_eq_reg(c, vx, vy) == SkipIf(c, c.regs[vx] = c.regs[vy])
skip_neq_reg(c, vx, vy) == SkipIf(c, c.regs[vx] # c.regs[vy])

load_byte(c, vx, byte) == [c EXCEPT !.regs[vx] = byte]
add_byte(c, vx, byte) == [c EXCEPT !.regs[vx] = WrappingAdd(c.regs[vx], byte)]
load_reg(c, vx, vy) == [c EXCEPT !.regs[vx] = c.regs[vy]]
or_reg(c, vx, vy) == [c EXCEPT !.regs[vx] = BitOr(c.regs[vx], c.regs[vy])]
and_reg(c, vx, vy) == [c EXCEPT !.regs[vx] = BitAnd(c.regs[vx], c.regs[vy])]
xor_reg(c, vx, vy) == [c EXCEPT !.regs[vx] = BitXor(c.regs[vx], c.regs[vy])]

\* set_flag first, then the store to Vx
add_reg(c, vx, vy) ==
  LET r == OverflowingAdd(c.regs[vx], c.regs[vy])
  IN [c EXCEPT !.regs = [SetFlag(c.regs, BoolToU8(r.flag)) EXCEPT ![vx] = r.val]]

sub_reg(c, vx, vy) ==
  LET r == OverflowingSub(c.regs[vx], c.regs[vy])
  IN [c EXCEPT !.regs = [SetFlag(c.regs, BoolToU8(~r.flag)) EXCEPT ![vx] = r.val]]

\* the shift reads Vx after set_flag has written VF
shr_reg(c, vx) ==
  LET r1 == SetFlag(c.regs, BitAnd(c.regs[vx], 1))
  IN [c EXCEPT !.regs = [r1 EXCEPT ![vx] = r1[vx] \div 2]]

subn_reg(c, vx, vy) ==
  LET r == OverflowingSub(c.regs[vy], c.regs[vx])
  IN [c EXCEPT !.regs = [SetFlag(c.regs, BoolToU8(~r.flag)) EXCEPT ![vx] = r.val]]

shl_reg(c, vx) ==
  LET r1 == SetFlag(c.regs, c.regs[vx] \div 128)
  IN [c EXCEPT !.regs = [r1 EXCEPT ![vx] = (r1[vx] * 2) % U8]]

load_idx(c, addr) == [c EXCEPT !.idx = addr]

\* a jump that adds V0 to the program counter instead of the operand
jump_v0_FromPc(c, addr) == [c EXCEPT !.pc = AddrAdd(c.pc, V0(c.regs))]

jump_v0(c, addr) == [c EXCEPT !.pc = AddrAdd(addr, V0(c.regs))]

\* rnd is the byte rand::random() returns
random_byte(c, vx, byte, rnd) == [c EXCEPT !.regs[vx] = BitAnd(byte, rnd)]

draw(c, vx, vy, height) ==
  LET sprite == [k \in 1..height |-> ReadByte(c.mem, AddrAdd(c.idx, k - 1))]
      d == DisplayDraw(c.display, c.regs[vx], c.regs[vy], sprite)
  IN [c EXCEPT !.display = d.grid,
               !.regs = SetFlag(c.regs, BoolToU8(d.collision))]

skip_key_pressed(c, vx, kb) == SkipIf(c, IsKeyPressed(kb, c.regs[vx]))
skip_key_not_pressed(c, vx, kb) == SkipIf(c, ~IsKeyPressed(kb, c.regs[vx]))

\* dt is what self.dt.get() returns
load_delay(c, vx, dt) == [c EXCEPT !.regs[vx] = dt]

\* a wait that moves on without a key
wait_key_NoRewind(c, vx, kb) ==
  IF GetKeyPress(kb).some THEN [c EXCEPT !.regs[vx] = GetKeyPress(kb).val] ELSE c

wait_key(c, vx, kb) ==
  IF GetKeyPress(kb).some
    THEN [c EXCEPT !.regs[vx] = GetKeyPress(kb).val]
    ELSE [c EXCEPT !.pc = AddrSub(c.pc, 2)]

\* an addition on the plain u16, without the wrap at MEMORY_SIZE
add_idx_NoWrap(c, vx) == [c EXCEPT !.idx = c.idx + c.regs[vx]]

add_idx(c, vx) == [c EXCEPT !.idx = AddrAdd(c.idx, c.regs[vx])]

load_sprite(c, vx) == [c EXCEPT !.idx = AddrFrom(SPRITE_SIZE * c.regs[vx])]

\* a decomposition whose tens digit keeps the hundreds
load_bcd_Tens(c, vx) ==
  LET m1 == WriteByte(c.mem, c.idx, c.regs[vx] \div 100)
      m2 == WriteByte(m1, AddrAdd(c.idx, 1), c.regs[vx] \div 10)
      m3 == WriteByte(m2, AddrAdd(c.idx, 2), c.regs[vx] % 10)
  IN [c EXCEPT !.mem = m3]

load_bcd(c, vx) ==
  LET m1 == WriteByte(c.mem, c.idx, c.regs[vx] \div 100)
      m2 == WriteByte(m1, AddrAdd(c.idx, 1), (c.regs[vx] % 100) \div 10)
      m3 == WriteByte(m2, AddrAdd(c.idx, 2), c.regs[vx] % 10)
  IN [c EXCEPT !.mem = m3]

\* a store of the registers below vx only
store_regs_Exclusive(c, vx) ==
  LET f[i \in 0..vx] ==
        IF i = 0 THEN c.mem
        ELSE WriteByte(f[i - 1], AddrAdd(c.idx, i - 1), c.regs[i - 1])
  IN [c EXCEPT !.mem = f[vx], !.idx = AddrAdd(c.idx, vx + 1)]

store_regs(c, vx) ==
  LET f[i \in 0..(vx + 1)] ==
        IF i = 0 THEN c.mem
        ELSE WriteByte(f[i - 1], AddrAdd(c.idx, i - 1), c.regs[i - 1])
  IN [c EXCEPT !.mem = f[vx + 1], !.idx = AddrAdd(c.idx, vx + 1)]

load_regs(c, vx) ==
  [c EXCEPT !.regs = [r \in DOMAIN c.regs |->
                        IF r <= vx THEN ReadByte(c.mem, AddrAdd(c.idx, r))
                        ELSE c.regs[r]],
            !.idx = AddrAdd(c.idx, vx + 1)]

\* the match of CPU::execute
Dispatch(c, op, kb, dt, rnd, chk) ==
  CASE op.kind = "NoOp" -> c
    [] op.kind = "ClearScreen" -> cleared_screen(c)
    [] op.kind = "Return" -> return_subroutine(c, chk)
    [] op.kind = "Jump" -> jump_addr(c, op.addr)
    [] op.kind = "Call" -> call_addr(c, op.addr, chk)
    [] op.kind = "SkipEqualByte" -> skip_eq_byte(c, op.vx, op.byte)
    [] op.kind = "SkipNotEqualByte" -> skip_neq_byte(c, op.vx, op.byte)
    [] op.kind = "SkipEqualReg" -> skip_eq_reg(c, op.vx, op.vy)
    [] op.kind = "LoadByte" -> load_byte(c, op.vx, op.byte)
    [] op.kind = "AddByte" -> add_byte(c, op.vx, op.byte)
    [] op.kind = "LoadReg" -> load_reg(c, op.vx, op.vy)
    [] op.kind = "OrReg" -> or_reg(c, op.vx, op.vy)
    [] op.kind = "AndReg" -> and_reg(c, op.vx, op.vy)
    [] op.kind = "XorReg" -> xor_reg(c, op.vx, op.vy)
    [] op.kind = "AddReg" -> add_reg(c, op.vx, op.vy)
    [] op.kind = "SubReg" -> sub_reg(c, op.vx, op.vy)
    [] op.kind = "ShiftRight" -> shr_reg(c, op.vx)
    [] op.kind = "SubNot" -> subn_reg(c, op.vx, op.vy)
    [] op.kind = "ShiftLeft" -> shl_reg(c, op.vx)
    [] op.kind = "SkipNotEqualReg" -> skip_neq_reg(c, op.vx, op.vy)
    [] op.kind = "LoadIndex" -> load_idx(c, op.addr)
    [] op.kind = "JumpV0" -> jump_v0(c, op.addr)
    [] op.kind = "RandomByte" -> random_byte(c, op.vx, op.byte, rnd)
    [] op.kind = "Draw" -> draw(c, op.vx, op.vy, op.n)
    [] op.kind = "SkipKeyPressed" -> skip_key_pressed(c, op.vx, kb)
    [] op.kind = "SkipKeyNotPressed" -> skip_key_not_pressed(c, op.vx, kb)
    [] op.kind = "LoadDelay" -> load_delay(c, op.vx, dt)
    [] op.kind = "WaitKey" -> wait_key(c, op.vx, kb)
    [] op.kind = "SetDelay" -> c
    [] op.kind = "SetSound" -> c
    [] op.kind = "AddToIndex" -> add_idx(c, op.vx)
    [] op.kind = "LoadFont" -> load_sprite(c, op.vx)
    [] op.kind = "LoadBCD" -> load_bcd(c, op.vx)
    [] op.kind = "StoreRegs" -> store_regs(c, op.vx)
    [] op.kind = "LoadRegs" -> load_regs(c, op.vx)

\* the two instructions load each other's timer
LoadsTimer_Swapped(op) ==
  CASE op.kind = "SetDelay" -> Some("st")
    [] op.kind = "SetSound" -> Some("dt")
    [] OTHER -> None

\* set_delay and set_sound: the timer the instruction loads, if any
LoadsTimer(op) ==
  CASE op.kind = "SetDelay" -> Some("dt")
    [] op.kind = "SetSound" -> Some("st")
    [] OTHER -> None

\* the machine state c becomes the state of the CPU and the display
Commit(c) ==
  /\ regs' = c.regs
  /\ idx' = c.idx
  /\ pc' = c.pc
  /\ sp' = c.sp
  /\ stack' = c.stack
  /\ mem' = c.mem
  /\ display' = c.display

Outcome(kind, word) == [kind |-> kind, word |-> word]

(***************************************************************************)
(* The programs, key presses and random bytes of the exploration           *)
(***************************************************************************)
\* the instruction word with the four nibbles a b c d
W(a, b, c, d) == a * 4096 + b * 256 + c * 16 + d

\* the program image of a sequence of instruction words: big-endian bytes
Image(words) ==
  [k \in 1..(2 * Len(words)) |->
     IF k % 2 = 1 THEN words[(k + 1) \div 2] \div 256 ELSE words[k \div 2] % 256]

\* a jump to itself at the word with index k of the image: the program halts
Halt(k) == W(1, 0, 0, 0) + PROGRAM_START + 2 * k

\* V1 := 200, V2 := 3
Setup == <<W(6, 1, 12, 8), W(6, 2, 0, 3)>>

\* one word of every instruction that only moves pc past itself
PlainWords ==
  { W(0, 0, 0, 0), W(0, 0, 14, 0), W(6, 10, 2, 10), W(7, 1, 6, 4),
    W(8, 1, 2, 0), W(8, 1, 2, 1), W(8, 1, 2, 2), W(8, 1, 2, 3), W(8, 1, 2, 4),
    W(8, 1, 2, 5), W(8, 1, 2, 6), W(8, 1, 2, 7), W(8, 1, 2, 14),
    W(10, 1, 2, 3), W(12, 1, 0, 15), W(13, 1, 2, 5),
    W(15, 2, 0, 7), W(15, 2, 1, 5), W(15, 2, 1, 8), W(15, 1, 1, 14),
    W(15, 2, 2, 9), W(15, 1, 3, 3), W(15, 1, 5, 5), W(15, 1, 6, 5) }

\* the registers are set up, the instruction runs, the program halts
PlainPrograms == {Setup \o <<w, Halt(3)>> : w \in PlainWords}

\* jumps, calls, returns and skips, among them a jump and a call to the last
\* word of memory, a return on an empty stack and a jump into the font
ControlPrograms ==
  { <<W(1, 2, 0, 4), 0, Halt(2)>>, <<Halt(0)>>, <<W(1, 15, 15, 14)>>,
    <<W(2, 2, 0, 4), Halt(1), W(0, 0, 14, 14)>>, <<W(2, 15, 15, 14)>>,
    <<W(0, 0, 14, 14)>>,
    <<W(6, 0, 0, 5), W(11, 15, 15, 14)>>,
    <<W(6, 0, 0, 4), W(11, 2, 0, 2), 0, Halt(3)>>,
    <<W(6, 1, 0, 7), W(3, 1, 0, 7), Halt(2), Halt(3)>>,
    <<W(6, 1, 0, 7), W(4, 1, 0, 7), Halt(2), Halt(3)>>,
    <<W(6, 1, 0, 7), W(5, 1, 2, 0), Halt(2), Halt(3)>>,
    <<W(6, 1, 0, 7), W(9, 1, 2, 0), Halt(2), Halt(3)>>,
    <<W(6, 1, 0, 7), W(14, 1, 9, 14), Halt(2), Halt(3)>>,
    <<W(6, 1, 0, 7), W(14, 1, 10, 1), Halt(2), Halt(3)>> }

\* STACK_DEPTH calls, each to the word after itself, and then the halt
NestedCalls ==
  [k \in 1..(STACK_DEPTH + 1) |->
     IF k <= STACK_DEPTH THEN W(2, 0, 0, 0) + PROGRAM_START + 2 * k
     ELSE Halt(STACK_DEPTH)]

\* a key wait first, after a register load, and after a timer load
WaitPrograms ==
  { <<W(15, 3, 0, 10), Halt(1)>>,
    <<W(6, 3, 15, 15), W(15, 3, 0, 10), Halt(2)>>,
    <<W(6, 2, 0, 2), W(15, 2, 1, 5), W(15, 0, 0, 10), Halt(3)>> }

\* a full-size image: a jump to the last word of memory, which is a key wait
WaitAtTop ==
  [k \in 1..(MEMORY_SIZE - PROGRAM_START) |->
     CASE k = 1 -> 31
       [] k = 2 -> 254
       [] k = MEMORY_SIZE - PROGRAM_START - 1 -> 243
       [] k = MEMORY_SIZE - PROGRAM_START -> 10
       [] OTHER -> 0]

\* words of no instruction
BadWords ==
  { W(0, 1, 2, 3), W(5, 1, 2, 1), W(8, 1, 2, 8), W(9, 0, 0, 1),
    W(14, 1, 0, 0), W(15, 15, 15, 15) }

\* a word of no instruction, first or after registers, a timer, the index,
\* the display, the memory and the stack have been written
BadPrograms ==
  {<<w>> : w \in BadWords}
    \cup { Setup \o <<W(15, 2, 1, 5), W(8, 1, 2, 8)>>,
           <<W(10, 0, 0, 5), W(13, 0, 0, 5), W(15, 15, 15, 15)>>,
           <<W(2, 2, 0, 4), 0, W(15, 1, 5, 5), W(5, 1, 2, 1)>> }

\* both timers are loaded from V2 = 3 and the delay timer is read back
TimerProgram ==
  Setup \o <<W(15, 2, 1, 5), W(15, 2, 1, 8), W(15, 1, 0, 7), Halt(5)>>

Programs ==
  {Image(p) : p \in PlainPrograms \cup ControlPrograms \cup {NestedCalls}
                      \cup WaitPrograms \cup BadPrograms \cup {TimerProgram}}
    \cup {WaitAtTop}

(***************************************************************************)
(* The programs of CpuSpec: one instruction on chosen operands             *)
(***************************************************************************)
\* the register indices and byte values the instructions are tried on
RegChoices == {0, 7, 15}
ByteChoices == {0, 1, 5, 10, 128, 255}

\* Vx := a, Vy := b, the instruction word of family 8 with last nibble n on
\* (x, y), and the halt
ArithProgram(x, a, y, b, n) ==
  <<W(6, x, 0, 0) + a, W(6, y, 0, 0) + b, W(8, x, y, n), Halt(3)>>

ArithPrograms(n) ==
  {ArithProgram(x, a, y, b, n) :
     <<x, a, y, b>> \in RegChoices \X ByteChoices \X RegChoices \X ByteChoices}

\* AddReg
AddCases == ArithPrograms(4)

\* SubReg and SubNot
SubCases == ArithPrograms(5) \cup ArithPrograms(7)

\* ShiftRight and ShiftLeft of Vx with V3 = 0x55 as the second operand register
ShiftCases ==
  {<<W(6, 3, 5, 5), W(6, x, 0, 0) + a, W(8, x, 3, n), Halt(3)>> :
     <<x, a, n>> \in RegChoices \X ByteChoices \X {6, 14}}

\* the corners of the screen and register values beyond its width and height
DrawPositions == {<<0, 0>>, <<60, 30>>, <<63, 31>>, <<70, 40>>, <<255, 255>>}

\* <<background sprite address, sprite address>>: font digits, the program's
\* own bytes, the zero bytes below 0xFFF, and sprites that run past 0xFFF
DrawSprites == {<<0, 0>>, <<5, 0>>, <<4080, 0>>, <<512, 4094>>, <<4094, 512>>}

DrawHeights == {0, 1, 5, 15}

\* a background sprite is drawn at (V0, V1), then another sprite twice there
DrawCases ==
  {<<W(6, 0, 0, 0) + p[1], W(6, 1, 0, 0) + p[2], W(10, 0, 0, 0) + s[1],
     W(13, 0, 1, n), W(10, 0, 0, 0) + s[2], W(13, 0, 1, n), W(13, 0, 1, n),
     Halt(7)>> : <<p, s, n>> \in DrawPositions \X DrawSprites \X DrawHeights}

\* V0..V2 are set, StoreRegs(x) at I = a, V0, V2 and VF are overwritten,
\* then LoadRegs(x) at I = b
RangeCases ==
  {<<W(6, 0, 0, 0) + v[1], W(6, 1, 0, 0) + v[2], W(6, 2, 0, 0) + v[3],
     W(10, 0, 0, 0) + a, W(15, x, 5, 5),
     W(6, 0, 7, 7), W(6, 2, 8, 8), W(6, 15, 9, 9),
     W(10, 0, 0, 0) + b, W(15, x, 6, 5), Halt(10)>> :
     <<v, x, a, b>> \in {<<1, 2, 3>>, <<255, 0, 128>>} \X {0, 2, 15}
                          \X {768, 4094} \X {768, 4094}}

\* LoadBCD of every byte at 0x300, and of some bytes where I + 2 passes 0xFFF
BCDCases ==
  {<<W(6, x, 0, 0) + v, W(10, 0, 0, 0) + a, W(15, x, 3, 3), Halt(3)>> :
     <<x, v, a>> \in ({0} \X (0..255) \X {768})
                       \cup ({0, 15} \X {0, 109, 255} \X {4094, 4095})}

\* <<V0, addr>> of the JumpV0 cases: the target is past the two instructions,
\* or in the font table after a wrap past 0xFFF
JumpOffsets == {<<16, 768>>, <<0, 516>>, <<255, 518>>, <<16, 4094>>, <<2, 4094>>}

\* the image of V0 := v, JumpV0 addr, with a jump to itself at the target
\* when the target is in the program area
JumpImage(v, addr) ==
  LET target == (addr + v) % 4096
      head == Image(<<W(6, 0, 0, 0) + v, W(11, 0, 0, 0) + addr>>)
      size == IF target >= PROGRAM_START + 4 THEN target + 2 - PROGRAM_START ELSE 4
  IN [k \in 1..size |->
        IF k <= 4 THEN head[k]
        ELSE IF k = size - 1 THEN 16 + target \div 256
        ELSE IF k = size THEN target % 256
        ELSE 0]

JumpCases == {JumpImage(q[1], q[2]) : q \in JumpOffsets}

\* AddToIndex past 0xFFF, LoadFont of the largest byte and of a digit, and a
\* jump to the odd address 0xFFF
AddressCases ==
  { <<W(6, 0, 15, 15), W(10, 15, 15, 15), W(15, 0, 1, 14), Halt(3)>>,
    <<W(6, 0, 1, 0), W(10, 15, 15, 8), W(15, 0, 1, 14), Halt(3)>>,
    <<W(6, 0, 15, 15), W(15, 0, 2, 9), Halt(2)>>,
    <<W(6, 0, 0, 15), W(15, 0, 2, 9), Halt(2)>>,
    <<W(1, 15, 15, 15)>> }

\* a full-size image: a jump to the last word of memory, which is word
AtTop(word) ==
  [k \in 1..(MEMORY_SIZE - PROGRAM_START) |->
     CASE k = 1 -> 31
       [] k = 2 -> 254
       [] k = MEMORY_SIZE - PROGRAM_START - 1 -> word \div 256
       [] k = MEMORY_SIZE - PROGRAM_START -> word % 256
       [] OTHER -> 0]

\* at 0xFFE: a skip taken, a skip not taken, a key wait and a NoOp
TopCases == {AtTop(w) : w \in {W(3, 0, 0, 0), W(4, 0, 0, 0), W(15, 3, 0, 10), 0}}

\* n nested calls and their returns: the first word calls the first
\* subroutine and the second halts; subroutine k is the two words Call
\* subroutine k + 1, Return, and the innermost is a single Return
CallChain(n) ==
  [i \in 1..(2 * n + 1) |->
     IF i = 1 THEN W(2, 0, 0, 0) + PROGRAM_START + 4
     ELSE IF i = 2 THEN Halt(1)
     ELSE IF i % 2 = 1 /\ i < 2 * n + 1
       THEN W(2, 0, 0, 0) + PROGRAM_START + 2 * (i + 1)
     ELSE W(0, 0, 14, 14)]

\* a Return with no active call, and call chains up to and beyond the depth
\* the code reaches
StackCases ==
  {<<W(0, 0, 14, 14)>>, CallChain(1), CallChain(STACK_DEPTH - 1),
   CallChain(STACK_DEPTH)}

\* SkipKeyPressed and SkipKeyNotPressed on V1 holding a key number, pressed
\* or not in KeyInputs, or a byte that is no key number
KeySkipCases ==
  {<<W(6, 1, 0, 0) + v, W(14, 1, 0, 0) + low, Halt(2), Halt(3)>> :
     <<v, low>> \in {0, 3, 7, 15, 16, 23, 255} \X {158, 161}}

CasePrograms ==
  {Image(p) : p \in AddCases \cup SubCases \cup ShiftCases \cup DrawCases
                       \cup RangeCases \cup BCDCases \cup AddressCases
                       \cup StackCases \cup KeySkipCases}
    \cup JumpCases \cup TopCases

\* the sets of keys the window reports as held down
KeyInputs == {{}, {7}, {3, 12}}

\* the values rand::random() takes in the exploration
RandomBytes == {0, 165, 255}

(***************************************************************************)
(* main and Emulator::run: the driver of the CPU                           *)
(***************************************************************************)
\* main: Chip9::new has run (the clock is started), the program is not loaded
Init ==
  /\ timer = [t \in TimerIds |-> TimerNew]
  /\ tx = TRUE
  /\ handle = TRUE
  /\ chan = <<>>
  /\ connected = TRUE
  /\ clk = ClkIdle("recv", FALSE)
  /\ api = "idle"
  /\ loaded = [t \in TimerIds |-> TimerNew]
  /\ ticks = [t \in TimerIds |-> 0]
  /\ round = ZeroRound
  /\ want = FALSE
  /\ hasShutdown = FALSE
  /\ Chip9New
  /\ drv = "load"
  /\ checked \in BOOLEAN

\* the run ends: Emulator::run returns, or the thread unwinds from a panic
Exit(kind, word) == outcome' = Outcome(kind, word) /\ drv' = "exit"

\* main: load_program(..).unwrap() on a program file out of programs
LoadFrom(programs) ==
  /\ drv = "load"
  /\ \E bytes \in programs :
       IF ProgramFits(bytes)
         THEN mem' = LoadBytes(bytes) /\ drv' = "start" /\ UNCHANGED outcome
         ELSE Exit("panic", 0) /\ UNCHANGED mem
  /\ UNCHANGED <<regs, idx, pc, sp, stack, display, keyboard, pressed_keys,
               checked, last, mark, calls>>
  /\ UNCHANGED clockVars

\* main with one of the programs of Spec
LoadProgram == LoadFrom(Programs)

\* Emulator::run up to the loop: the window is created, or run returns the error
RunStart ==
  /\ drv = "start"
  /\ \E created \in BOOLEAN :
       IF created
         THEN drv' = "poll" /\ UNCHANGED outcome
         ELSE Exit("WindowCreationError", 0)
  /\ UNCHANGED <<regs, idx, pc, sp, stack, mem, display, keyboard, pressed_keys,
               checked, last, mark, calls>>
  /\ UNCHANGED clockVars

\* the loop condition fails: the window is closed and run returns Ok
DriverClose ==
  /\ drv = "poll"
  /\ Exit("Ok", 0)
  /\ UNCHANGED <<regs, idx, pc, sp, stack, mem, display, keyboard, pressed_keys,
               checked, last, mark, calls>>
  /\ UNCHANGED clockVars

\* one turn of the loop up to the call of execute: update_keyboard, render,
\* and the test of the instruction period (sleep when it has not elapsed)
DriverPoll ==
  /\ drv = "poll"
  /\ \E keys \in KeyInputs, rendered \in BOOLEAN, due \in BOOLEAN :
       /\ keyboard' = SetPressed(keys)
       /\ pressed_keys' = keys
       /\ IF ~rendered THEN Exit("WindowUpdateError", 0)
          ELSE /\ drv' = IF due THEN "exec" ELSE "poll"
               /\ UNCHANGED outcome
  /\ UNCHANGED <<regs, idx, pc, sp, stack, mem, display, checked, last, mark,
                 calls>>
  /\ UNCHANGED clockVars

\* a driver that goes on after a failed execute
AfterExecute_SkipBad(ok) == "poll"

\* the active calls after the instruction op has left the machine as c: a
\* Call that completed is entered, a Return that completed leaves the innermost
Called(active, op, c) ==
  IF c.panicked THEN active
  ELSE IF op.kind = "Call" THEN Append(active, [site |-> pc, sp |-> sp])
  ELSE IF op.kind = "Return" /\ active # <<>>
    THEN SubSeq(active, 1, Len(active) - 1)
  ELSE active

\* chip9.execute()?: the loop goes on only after Ok
AfterExecute(ok) == IF ok THEN "poll" ELSE "exit"

\* CPU::execute, called by the driver
Execute ==
  /\ drv = "exec"
  /\ LET f == Fetch(Machine)
         op == Decode(f.word)
     IN /\ last' = [pc |-> pc, word |-> f.word]
        /\ mark' = IF op.kind \in {"Draw", "StoreRegs", "LoadBCD"}
                     THEN [word |-> f.word, regs |-> regs, idx |-> idx, display |-> display]
                     ELSE mark
        /\ IF op.kind = Unrecognized
             THEN /\ Commit(f.cpu)
                  /\ UNCHANGED calls
                  /\ outcome' = Outcome(Unrecognized, f.word)
                  /\ drv' = AfterExecute(FALSE)
                  /\ UNCHANGED <<timer, loaded, ticks>>
             ELSE /\ \E rnd \in (IF op.kind = "RandomByte" THEN RandomBytes ELSE {0}) :
                       LET c == Dispatch(f.cpu, op, keyboard, TimerGet("dt"), rnd, checked)
                       IN /\ Commit(c)
                          /\ calls' = Called(calls, op, c)
                          /\ IF c.panicked
                               THEN Exit("panic", 0)
                               ELSE drv' = AfterExecute(TRUE) /\ UNCHANGED outcome
                  /\ IF LoadsTimer(op).some
                       THEN TimerLoad(LoadsTimer(op).val, f.cpu.regs[op.vx])
                       ELSE UNCHANGED <<timer, loaded, ticks>>
  /\ UNCHANGED <<keyboard, pressed_keys, checked>>
  /\ UNCHANGED <<tx, handle, chan, connected, clk, api, round, want, hasShutdown>>

Next ==
  \/ LoadProgram
  \/ RunStart
  \/ DriverClose
  \/ DriverPoll
  \/ Execute
  \/ Drop
  \/ ShutdownJoin
  \/ ClkRecvShutdown
  \/ ClkRecvErr
  \/ ClkTickLoad
  \/ ClkTickCAS

Spec == Init /\ [][Next]_vars

\* main with one of the programs of CpuSpec
LoadCase == LoadFrom(CasePrograms)

\* the machine run by its driver on the programs of CpuSpec.  The clock
\* thread takes no step here: no program of CasePrograms reads or writes a
\* Timer, so its steps change nothing these runs can see
CpuNext ==
  \/ LoadCase
  \/ RunStart
  \/ DriverPoll
  \/ Execute

CpuSpec == Init /\ [][CpuNext]_vars

(***************************************************************************)
(* The keyboard used through its API: set_pressed is called over and over  *)
(* with any of the keys of KeyChoices, starting from Keyboard::new          *)
(***************************************************************************)
KeyChoices == {0, 1, 3, 7, 8, 12, 15}

\* Emulator::update_keyboard: keyboard.set_pressed(&pressed_keys)
UpdateKeyboard ==
  /\ drv = NoDriver
  /\ \E keys \in SUBSET KeyChoices :
       /\ keyboard' = SetPressed(keys)
       /\ pressed_keys' = keys
  /\ UNCHANGED <<regs, idx, pc, sp, stack, mem, display, drv, outcome, checked,
                 last, mark, calls>>
  /\ UNCHANGED clockVars

KeySpec == ClockInit /\ [][UpdateKeyboard]_vars

(***************************************************************************)
(* Claims about Timer and TimerClock (checked under ClockSpec unless said) *)
(***************************************************************************)
\* the background loop exists and has not finished
LoopAlive == clk.pc \in {"recv", "tick", "cas"}

\* the owning thread is outside shutdown()
ApiReturned == api \in {"idle", "dropped"}

\* this step is a step of the background thread
ClockMoved == clk' # clk /\ clk.pc \in {"recv", "tick", "cas"} /\ api' = api

\* this step completes a Timer::tick call on timer t
TickCompletes(t) ==
  /\ clk.pc \in {"tick", "cas"}
  /\ timers[clk.i] = t
  /\ clk' # clk
  /\ ~(clk'.pc = "cas" /\ clk'.i = clk.i)

\* C1: under every interleaving of tick (clock thread) with load and get
\* (owning thread) the counter stays in [0,255], every get returns a value
\* in [0,255], and a completed tick turns v > 0 into v - 1 and leaves 0 at
\* 0; no step of the clock changes a counter in any other way.
C1_TickFloorsAtZero ==
  /\ [](\A t \in TimerIds : timer[t] \in 0..255 /\ TimerGet(t) \in 0..255)
  /\ [][\A t \in TimerIds :
         /\ TickCompletes(t) => timer'[t] = Max(timer[t] - 1, 0)
         /\ (ClockMoved /\ ~TickCompletes(t)) => timer'[t] = timer[t]]_vars

\* C1 witness: a tick has completed on a counter that was already at 0
\* after a load of a positive value
C1_Witness ==
  \E t \in TimerIds :
    loaded[t] > 0 /\ ticks[t] > loaded[t] /\ timer[t] = 0

\* the clock thread is between the load and the exchange of a tick on t
MidTick(t) == clk.pc = "cas" /\ timers[clk.i] = t

\* C2: no update is lost when load(v) races with tick: with at most one
\* tick taking effect after the load, and so once both have completed, the
\* counter is v or max(v - 1, 0), never the pre-load value minus one.
C2_NoLostUpdate ==
  \A t \in TimerIds :
    ticks[t] <= 1 => timer[t] \in {loaded[t], Max(loaded[t] - 1, 0)}

\* C2 witness: load(v) has stored v while a tick on the same timer holds the
\* different value it read before the load and has not yet exchanged it
C2_Witness ==
  \E t \in TimerIds :
    /\ MidTick(t) /\ clk.prev # timer[t]
    /\ timer[t] = loaded[t] /\ ticks[t] = 0

\* C3: load(v) followed by k ticks with no load in between leaves
\* get() = max(v - k, 0).
C3_LoadThenTicks ==
  \A t \in TimerIds : TimerGet(t) = Max(loaded[t] - ticks[t], 0)

\* C3 witness: v = MaxLoad ticks after load(MaxLoad) the counter is 0 and
\* one more tick has left it at 0
C3_Witness ==
  \E t \in TimerIds :
    loaded[t] = MaxLoad /\ ticks[t] = MaxLoad + 1 /\ TimerGet(t) = 0

\* shutdown() has returned and start() has not been called since
ShutdownReturned == ApiReturned /\ hasShutdown /\ ~tx

NothingToStop == ~tx /\ ~handle

\* C5: shutdown() returns from every state (never started, running, paused,
\* called again, called from Drop after an explicit call), and a call that
\* finds nothing to stop changes nothing.
C5_ShutdownIdempotent ==
  /\ (~ApiReturned) ~> ApiReturned
  /\ [][(NothingToStop /\ (api' # api \/ hasShutdown' # hasShutdown))
          => UNCHANGED <<timer, tx, handle, chan, connected, clk>>]_vars

\* C5 witness: the shutdown() called from Drop after an explicit shutdown()
\* of a started clock has returned
C5_Witness ==
  /\ api = "dropped" /\ hasShutdown
  /\ clk.pc = "done" /\ NothingToStop

\* C6 (as claimed): once a shutdown() has returned no background loop
\* exists any more, whatever is called afterwards.
C6_ForwardOnly == hasShutdown => ~LoopAlive

\* C7: a paused loop applies no tick but still receives commands; an
\* unpaused timeout ticks every registered Timer exactly once; commands
\* take effect in the order sent; pause/resume on a clock without a loop
\* queue nothing.
C7_PauseResume ==
  /\ [](clk.pc \in {"tick", "cas"} => ~clk.paused)
  /\ [](clk.pc \in {"none", "done"} => chan = <<>>)
  /\ []((LoopAlive /\ chan = <<>> /\ tx) => clk.paused = want)
  /\ [][(clk.pc = "recv" /\ clk.paused /\ ClockMoved)
          => /\ timer' = timer
             /\ clk'.pc \in {"recv", "done"}
             /\ chan # <<>> /\ chan' = Tail(chan)
             /\ (Head(chan) = "Resume" => ~clk'.paused /\ clk'.pc = "recv")
             /\ (Head(chan) = "Shutdown" => clk'.pc = "done")]_vars
  /\ [][(clk.pc \in {"tick", "cas"} /\ clk'.pc = "recv")
          => \A t \in TimerIds : round'[t] = 1]_vars

\* C7 witness: the loop is paused and waiting with nothing queued while a
\* registered timer holds a positive value, after an earlier round of ticks
C7_Witness ==
  /\ clk.pc = "recv" /\ clk.paused /\ chan = <<>> /\ tx
  /\ timer["dt"] > 0 /\ ticks["dt"] > 0

(***************************************************************************)
(* Claims about the CPU and its driver (checked under Spec)                *)
(***************************************************************************)
\* this step is a call of CPU::execute by the driver
ExecuteStep == drv = "exec" /\ drv' # "exec"

\* the instruction at the program counter
Fetched == Decode(GetInstruction(mem, pc))

\* the instructions that neither set nor adjust pc themselves
PlainKinds ==
  { "NoOp", "ClearScreen", "LoadByte", "AddByte", "LoadReg", "OrReg", "AndReg",
    "XorReg", "AddReg", "SubReg", "ShiftRight", "SubNot", "ShiftLeft",
    "LoadIndex", "RandomByte", "Draw", "LoadDelay", "SetDelay", "SetSound",
    "AddToIndex", "LoadFont", "LoadBCD", "StoreRegs", "LoadRegs" }

NoKeyPressed == \A k \in 0..15 : ~keyboard[k]

LowestKeyPressed == CHOOSE k \in 0..15 : keyboard[k] /\ \A h \in 0..(k - 1) : ~keyboard[h]

\* C8: a call of execute is one fetch-decode-execute cycle on the word at
\* pc.  After an instruction other than Jump, Call, Return, JumpV0, the skips
\* and WaitKey, pc is (pc + 2) mod 4096; after a Jump pc is the address
\* operand; after a Call with a free stack slot (fewer than 16 calls are
\* active) pc is the address operand and the slot the stack pointer names
\* holds the incremented pc.
C8_OneCycle ==
  [][ExecuteStep =>
       /\ last' = [pc |-> pc, word |-> GetInstruction(mem, pc)]
       /\ (Fetched.kind \in PlainKinds => pc' = (pc + 2) % 4096)
       /\ (Fetched.kind = "Jump" => pc' = Fetched.addr)
       /\ (Fetched.kind = "Call" /\ sp < 16 =>
             /\ pc' = Fetched.addr
             /\ sp' \in 0..15
             /\ stack'[sp'] = (pc + 2) % 4096)]_vars

\* C9: WaitKey with no key pressed leaves pc where it was before the call
\* and every register unchanged; with a key pressed it puts the lowest
\* pressed key into Vx, changes no other register, and leaves pc at
\* (pc + 2) mod 4096.
C9_WaitKey ==
  [][(ExecuteStep /\ Fetched.kind = "WaitKey") =>
       IF NoKeyPressed
         THEN pc' = pc /\ regs' = regs
         ELSE /\ regs' = [regs EXCEPT ![Fetched.vx] = LowestKeyPressed]
              /\ pc' = (pc + 2) % 4096]_vars

\* a WaitKey at the last word of memory has just run without a key
C9_Witness ==
  /\ drv = "poll"
  /\ Fetched.kind = "WaitKey"
  /\ last = [pc |-> 4094, word |-> GetInstruction(mem, 4094)]
  /\ pc = 4094
  /\ NoKeyPressed

\* the run has ended with UnrecognizedOpcode
RunFailed == outcome.kind = "UnrecognizedOpcode"

\* C10: when the word at pc is no instruction, execute returns
\* UnrecognizedOpcode(word), moves pc on by 2 and changes nothing else
\* (registers, index, stack, stack pointer, memory, display, timers); the
\* driver leaves its loop with that error and execute is never called again.
C10_UnrecognizedHalts ==
  /\ [][(ExecuteStep /\ Fetched.kind = "UnrecognizedOpcode") =>
          /\ outcome' = [kind |-> "UnrecognizedOpcode", word |-> GetInstruction(mem, pc)]
          /\ pc' = (pc + 2) % 4096
          /\ UNCHANGED <<regs, idx, stack, sp, mem, display, timer>>]_vars
  /\ [](RunFailed => drv = "exit")
  /\ [][RunFailed =>
          /\ ~ExecuteStep
          /\ outcome' = outcome
          /\ UNCHANGED <<regs, idx, pc, stack, sp, mem, display, last>>]_vars

\* the run has ended on the word 0x8128 after V1, V2 and the delay timer were
\* loaded, and the clock has been joined
C10_Witness ==
  /\ outcome = [kind |-> "UnrecognizedOpcode", word |-> 33064]
  /\ last = [pc |-> 518, word |-> 33064]
  /\ pc = 520
  /\ regs[1] = 200
  /\ loaded["dt"] = 3
  /\ api = "dropped"

(***************************************************************************)
(* Claims about single instructions (checked under CpuSpec)                *)
(***************************************************************************)
\* this step executes an instruction of the given kind
Executes(kind) == ExecuteStep /\ Fetched.kind = kind

\* the instruction just executed was of this kind and moved pc past itself
Ran(kind) ==
  /\ drv = "poll"
  /\ Decode(last.word).kind = kind
  /\ pc = (last.pc + 2) % 4096

\* C11: AddReg(x, y) leaves VF = 1 if Vx + Vy > 255 and 0 otherwise, for
\* every x and y (0xF included), and for x # 0xF leaves Vx = (Vx + Vy) mod
\* 256, the old values on the right-hand side.
C11_AddRegCarry ==
  [][Executes("AddReg") =>
       LET x == Fetched.vx
           sum == regs[x] + regs[Fetched.vy]
       IN /\ regs'[15] = (IF sum > 255 THEN 1 ELSE 0)
          /\ (x # 15 => regs'[x] = sum % 256)]_vars

\* C12: SubReg(x, y) leaves Vx = (Vx - Vy) mod 256 and VF = 1 iff Vx >= Vy;
\* SubNot(x, y) leaves Vx = (Vy - Vx) mod 256 and VF = 1 iff Vy >= Vx; for
\* every x and y (0xF included) VF ends as the not-borrow bit.
C12_SubNotBorrow ==
  [][ExecuteStep =>
       LET x == Fetched.vx
           y == Fetched.vy
       IN /\ (Fetched.kind = "SubReg" =>
                /\ regs'[15] = (IF regs[x] >= regs[y] THEN 1 ELSE 0)
                /\ (x # 15 => regs'[x] = (regs[x] - regs[y]) % 256))
          /\ (Fetched.kind = "SubNot" =>
                /\ regs'[15] = (IF regs[y] >= regs[x] THEN 1 ELSE 0)
                /\ (x # 15 => regs'[x] = (regs[y] - regs[x]) % 256))]_vars

\* C13: ShiftRight(x, _) leaves VF = bit 0 of the old Vx and Vx = old Vx
\* div 2; ShiftLeft(x, _) leaves VF = bit 7 of the old Vx and Vx = (old Vx *
\* 2) mod 256; Vy is not written and does not matter; for every x (0xF
\* included) VF ends as the bit shifted out.
C13_ShiftFlag ==
  [][ExecuteStep =>
       LET x == Fetched.vx
           y == Fetched.vy
       IN /\ (Fetched.kind = "ShiftRight" =>
                /\ regs'[15] = regs[x] % 2
                /\ (x # 15 => regs'[x] = regs[x] \div 2)
                /\ (y \notin {x, 15} => regs'[y] = regs[y]))
          /\ (Fetched.kind = "ShiftLeft" =>
                /\ regs'[15] = regs[x] \div 128
                /\ (x # 15 => regs'[x] = (regs[x] * 2) % 256)
                /\ (y \notin {x, 15} => regs'[y] = regs[y]))]_vars

\* the cells that Draw combines a sprite bit of 1 into
SpriteCells ==
  {<<(regs[Fetched.vx] + q[1]) % 64, (regs[Fetched.vy] + q[2]) % 32>> :
     q \in {r \in (0..7) \X (0..(Fetched.n - 1)) :
              Bit(ReadByte(mem, (idx + r[2]) % 4096), 7 - r[1]) = 1}}

\* C14: Draw(x, y, n) XORs bit (7 - i) of memory[(I + j) mod 4096] into cell
\* ((Vx + i) mod 64, (Vy + j) mod 32) for i in 0..7 and j in 0..n-1, leaves
\* every other cell, the memory and I unchanged, and leaves VF = 1 iff a lit
\* cell became unlit.
C14_DrawXor ==
  [][Executes("Draw") =>
       LET cells == SpriteCells
       IN /\ \A cell \in (0..63) \X (0..31) :
               (cell \in display') <=> ((cell \in display) # (cell \in cells))
          /\ display' \subseteq (0..63) \X (0..31)
          /\ regs'[15] = (IF display \ display' # {} THEN 1 ELSE 0)
          /\ mem' = mem
          /\ idx' = idx]_vars

\* a draw at columns 60..63 wrapped onto column 0, turned a lit cell off and
\* left another lit
C14_Witness ==
  /\ Ran("Draw")
  /\ regs[0] = 60
  /\ regs[15] = 1
  /\ mark.display \ display # {}
  /\ \E cell \in display : cell[1] = 0

\* the instruction before this one was the same Draw, from the same I and to
\* the same position
DrawnTwice ==
  /\ Executes("Draw")
  /\ last.word = GetInstruction(mem, pc)
  /\ mark.word = last.word
  /\ mark.idx = idx
  /\ mark.regs[Fetched.vx] = regs[Fetched.vx]
  /\ mark.regs[Fetched.vy] = regs[Fetched.vy]

\* C15: the second of two equal draws in a row restores the grid that was
\* there before the first, and reports a collision iff the first draw turned
\* at least one cell on.
C15_DoubleDraw ==
  [][DrawnTwice =>
       /\ display' = mark.display
       /\ regs'[15] = (IF display \ mark.display # {} THEN 1 ELSE 0)]_vars

\* the grid after the second of two equal draws that found lit cells both
\* times: the first turned some cells off and others on
C15_Witness ==
  /\ Ran("Draw")
  /\ Decode(GetInstruction(mem, pc)).kind = "Jump"
  /\ last.word = GetInstruction(mem, (last.pc - 2) % 4096)
  /\ display # {}
  /\ regs[15] = 1
  /\ mark.regs[15] = 1

\* the StoreRegs whose pre-state mark holds wrote the range this LoadRegs
\* reads, and no instruction has written to memory since
ReadsBack ==
  /\ Executes("LoadRegs")
  /\ Decode(mark.word).kind = "StoreRegs"
  /\ Decode(mark.word).vx = Fetched.vx
  /\ mark.idx = idx

\* C16: StoreRegs(x) writes V0..Vx to memory[I..I+x] (mod 4096), sets I to
\* (I + x + 1) mod 4096 and leaves the registers; LoadRegs(x) reads V0..Vx
\* from memory[I..I+x], sets I likewise and leaves the memory and the
\* registers above x; a LoadRegs(x) at the I of the last StoreRegs(x) restores
\* V0..Vx to what they were at the store, whatever they held in between.
C16_StoreLoadRange ==
  [][ExecuteStep =>
       LET x == Fetched.vx
       IN /\ (Fetched.kind = "StoreRegs" =>
                /\ \A i \in 0..x : ReadByte(mem', (idx + i) % 4096) = regs[i]
                /\ idx' = (idx + x + 1) % 4096
                /\ regs' = regs)
          /\ (Fetched.kind = "LoadRegs" =>
                /\ \A i \in 0..x : regs'[i] = ReadByte(mem, (idx + i) % 4096)
                /\ \A r \in (x + 1)..15 : regs'[r] = regs[r]
                /\ idx' = (idx + x + 1) % 4096
                /\ mem' = mem)
          /\ (ReadsBack => \A i \in 0..x : regs'[i] = mark.regs[i])]_vars

\* all sixteen registers have been read back from a range that runs past
\* 0xFFF, after V0 and VF had been overwritten
C16_Witness ==
  /\ Ran("LoadRegs")
  /\ Decode(last.word).vx = 15
  /\ Decode(mark.word).kind = "StoreRegs"
  /\ mark.idx = 4094
  /\ idx = 14
  /\ regs[0] = 255
  /\ \A i \in 0..15 : regs[i] = mark.regs[i]

\* C17: LoadBCD(x) writes digits h, t, o to memory[I], memory[I+1],
\* memory[I+2] (mod 4096) with 100h + 10t + o = Vx, h in 0..2 and t, o in
\* 0..9, and leaves I, the registers and every other memory cell unchanged.
C17_LoadBCD ==
  [][Executes("LoadBCD") =>
       LET h == ReadByte(mem', idx)
           t == ReadByte(mem', (idx + 1) % 4096)
           o == ReadByte(mem', (idx + 2) % 4096)
           cells == {idx, (idx + 1) % 4096, (idx + 2) % 4096}
       IN /\ 100 * h + 10 * t + o = regs[Fetched.vx]
          /\ h \in 0..2 /\ t \in 0..9 /\ o \in 0..9
          /\ idx' = idx
          /\ regs' = regs
          /\ \A a \in (0..4095) \ cells : ReadByte(mem', a) = ReadByte(mem, a)]_vars

\* 255 has been decomposed into 2, 5, 5 at 0xFFF, 0x000 and 0x001
C17_Witness ==
  /\ Ran("LoadBCD")
  /\ idx = 4095
  /\ regs[Decode(last.word).vx] = 255
  /\ ReadByte(mem, 4095) = 2
  /\ ReadByte(mem, 0) = 5
  /\ ReadByte(mem, 1) = 5

\* C18: JumpV0(addr) leaves pc = (addr + V0) mod 4096; the increment of pc at
\* the fetch does not count.
C18_JumpV0 ==
  [][Executes("JumpV0") => pc' = (Fetched.addr + regs[0]) % 4096]_vars

\* V0 = 0x10 and JumpV0 0x300 have given pc = 0x310
C18_Witness ==
  /\ drv = "poll"
  /\ Decode(last.word).kind = "JumpV0"
  /\ Decode(last.word).addr = 768
  /\ regs[0] = 16
  /\ pc = 784

\* a JumpV0 has wrapped past 0xFFF: 0xFFE + 0x10 gives pc = 0x00E
C18_WitnessWrap ==
  /\ drv = "poll"
  /\ Decode(last.word).kind = "JumpV0"
  /\ Decode(last.word).addr = 4094
  /\ regs[0] = 16
  /\ pc = 14

\* the instructions that compare and may skip the next instruction
SkipKinds ==
  { "SkipEqualByte", "SkipNotEqualByte", "SkipEqualReg", "SkipNotEqualReg",
    "SkipKeyPressed", "SkipKeyNotPressed" }

\* every address an instruction moves pc or I to is the wrapped one
WrapsAddresses ==
  LET k == Fetched.kind
      x == Fetched.vx
      next == (pc + 2) % 4096
  IN /\ (k \in PlainKinds => pc' = next)
     /\ (k \in SkipKinds => pc' \in {next, (pc + 4) % 4096})
     /\ (k = "WaitKey" => pc' \in {next, (next - 2) % 4096})
     /\ (k = "JumpV0" => pc' = (Fetched.addr + regs[0]) % 4096)
     /\ (k = "AddToIndex" => idx' = (idx + regs[x]) % 4096)
     /\ (k = "LoadFont" => idx' = (5 * regs[x]) % 4096)
     /\ (k \in {"StoreRegs", "LoadRegs"} => idx' = (idx + x + 1) % 4096)

\* the two bytes of the fetched word come from pc and (pc + 1) mod 4096
FetchInRange ==
  last'.word = ReadByte(mem, pc) * 256 + ReadByte(mem, (pc + 1) % 4096)

\* C20: pc and I are always in 0..4095: the pc increment, a skip, the WaitKey
\* rewind, JumpV0, AddToIndex, LoadFont and the I advance of StoreRegs and
\* LoadRegs wrap modulo 4096, the fetch reads at pc and (pc + 1) mod 4096, and
\* no memory cell outside 0..4095 is ever written.
C20_AddressesInRange ==
  /\ [](/\ pc \in 0..4095
        /\ idx \in 0..4095
        /\ \A p \in mem : p[1] \in 0..4095)
  /\ [][ExecuteStep => (FetchInRange /\ (drv' = "poll" => WrapsAddresses))]_vars

\* AddToIndex has taken I = 0xFFF with V0 = 0xFF past the end of memory
C20_Witness ==
  /\ Ran("AddToIndex")
  /\ regs[Decode(last.word).vx] = 255
  /\ idx = 254

\* an instruction that enters or leaves a subroutine
StackStep == ExecuteStep /\ Fetched.kind \in {"Call", "Return"}

\* C21: the stack pointer always names one of the 16 stack slots, whatever
\* Calls and Returns have run, and no Call or Return, at full depth and with no
\* active call included, changes the memory, the registers or I.
C21_StackBounded ==
  /\ [](sp \in 0..15)
  /\ [][StackStep => (mem' = mem /\ regs' = regs /\ idx' = idx)]_vars

\* C22: whenever execute fetches, pc is even.
C22_EvenFetch == drv = "exec" => pc % 2 = 0

\* C23: a Call with fewer than 16 calls active succeeds, and a Return with a
\* call active succeeds and leaves pc two past the address of the innermost
\* active Call and sp as that Call found it: 16 nested Calls and their
\* Returns run, innermost first, and bring sp back to 0.
C23_CallStack ==
  [][ExecuteStep =>
       /\ (Fetched.kind = "Call" /\ Len(calls) < 16 =>
             /\ drv' = "poll"
             /\ pc' = Fetched.addr
             /\ Len(calls') = Len(calls) + 1)
       /\ (Fetched.kind = "Return" /\ calls # <<>> =>
             /\ drv' = "poll"
             /\ pc' = (calls[Len(calls)].site + 2) % 4096
             /\ sp' = calls[Len(calls)].sp)]_vars

\* the key whose number Vx holds is down; a value above 15 names no key
KeyOfVxDown == regs[Fetched.vx] \in 0..15 /\ regs[Fetched.vx] \in pressed_keys

\* C28: SkipKeyPressed(x) leaves pc four past the instruction iff the key
\* whose number Vx holds is pressed and two past it otherwise, and
\* SkipKeyNotPressed(x) the opposite; a Vx in 16..255 counts as not pressed;
\* the instruction never fails and changes no register and no key.
C28_SkipByKeyValue ==
  [][ExecuteStep =>
       /\ (Fetched.kind = "SkipKeyPressed" =>
             /\ pc' = (IF KeyOfVxDown THEN pc + 4 ELSE pc + 2) % 4096
             /\ drv' = "poll" /\ regs' = regs /\ keyboard' = keyboard)
       /\ (Fetched.kind = "SkipKeyNotPressed" =>
             /\ pc' = (IF KeyOfVxDown THEN pc + 2 ELSE pc + 4) % 4096
             /\ drv' = "poll" /\ regs' = regs /\ keyboard' = keyboard)]_vars

\* SkipKeyNotPressed has skipped on V1 = 23, which is no key number, while
\* key 7 (23 mod 16) was down
C28_Witness ==
  /\ drv = "poll"
  /\ Decode(last.word).kind = "SkipKeyNotPressed"
  /\ regs[Decode(last.word).vx] = 23
  /\ 7 \in pressed_keys
  /\ pc = last.pc + 4

(***************************************************************************)
(* Claims about the key wait and the timers (checked under Spec)           *)
(***************************************************************************)
\* the driver is in its loop and this step is not a call of CPU::execute
BetweenCalls == drv \in {"poll", "exec"} /\ ~ExecuteStep

\* C24: a call of execute at a WaitKey returns after one step; while no key
\* is pressed it leaves pc, the registers, I, the stack, the memory and the
\* display as they were, and nothing changes them between calls, so the same
\* WaitKey is fetched next; the first call that sees a key stores it and
\* moves pc past the instruction in that same call.
C24_WaitKeyMachine ==
  /\ [][Executes("WaitKey") =>
          /\ drv' = "poll"
          /\ IF NoKeyPressed
               THEN /\ UNCHANGED <<pc, regs, idx, sp, stack, mem, display>>
                    /\ Decode(GetInstruction(mem', pc')).kind = "WaitKey"
               ELSE /\ pc' = (pc + 2) % 4096
                    /\ regs'[Fetched.vx] = LowestKeyPressed]_vars
  /\ [][BetweenCalls => UNCHANGED <<pc, regs, idx, sp, stack, mem, display>>]_vars

\* the wait of `63FF F30A` has been resolved by key 3 (keys 3 and 12 down)
C24_Witness ==
  /\ Ran("WaitKey")
  /\ last = [pc |-> 514, word |-> 62218]
  /\ ~NoKeyPressed
  /\ regs[3] = 3

\* this step is a Timer::load on t, of the value t holds after it
LoadOf(t) == TimerLoad(t, TimerGet(t)')

\* the loop is running, not paused, and no command is waiting for it
TicksFreely == LoopAlive /\ ~clk.paused /\ chan = <<>>

\* C25 (checked under ClockFairSpec): between two loads the value of a Timer
\* never goes up; and if from some point on the clock runs unpaused with no
\* command sent and no Timer loaded, every registered Timer reaches 0 and
\* stays there.
C25_TimersRunDown ==
  /\ [][\A t \in TimerIds : ~LoadOf(t) => TimerGet(t)' <= TimerGet(t)]_vars
  /\ (<>[]TicksFreely /\ <>[][\A t \in TimerIds : ~LoadOf(t)]_vars)
        => <>[](\A t \in TimerIds : TimerGet(t) = 0)

\* both timers were loaded with positive values and the running, unpaused
\* clock has brought both down to 0
C25_Witness ==
  /\ TicksFreely
  /\ \A t \in TimerIds : loaded[t] > 0 /\ ticks[t] >= loaded[t] /\ TimerGet(t) = 0

\* C26 (checked under ClockSpec): from the return of a pause() on a running
\* clock until resume() is called, no step of the loop decrements a Timer,
\* wherever the loop was when pause() was called.
C26_PauseTakesEffect ==
  [][(want /\ want' /\ ClockMoved)
       => \A t \in TimerIds : TimerGet(t)' >= TimerGet(t)]_vars

\* what an instruction does to the timers, and LoadDelay to its register
TimerFootprint ==
  LET k == Fetched.kind
      x == Fetched.vx
  IN /\ (k = "SetDelay" => timer' = [timer EXCEPT !["dt"] = regs[x]])
     /\ (k = "SetSound" => timer' = [timer EXCEPT !["st"] = regs[x]])
     /\ (k \notin {"SetDelay", "SetSound"} => timer' = timer)
     /\ (k = "LoadDelay" => regs' = [regs EXCEPT ![x] = TimerGet("dt")])

\* C27 (checked under Spec): of the instructions only SetDelay(x) writes the
\* delay timer and only SetSound(x) the sound timer, each with Vx and without
\* changing the other timer; LoadDelay(x) reads the delay timer into Vx; a
\* step of the clock's loop changes no register, pc, I, stack, memory,
\* display or keyboard, and a tick of one timer leaves the other unchanged.
C27_TimerWriters ==
  /\ [][ExecuteStep => TimerFootprint]_vars
  /\ [][ClockMoved => UNCHANGED <<regs, pc, idx, sp, stack, mem, display, keyboard>>]_vars
  /\ [][\A t \in TimerIds :
          TickCompletes(t) => \A u \in TimerIds \ {t} : timer'[u] = timer[u]]_vars

\* LoadDelay has read a delay timer that the clock had already ticked down
\* from its SetDelay value, while the sound timer still holds its own
C27_Witness ==
  /\ Ran("LoadDelay")
  /\ loaded["dt"] = 3
  /\ regs[Decode(last.word).vx] = TimerGet("dt")
  /\ TimerGet("dt") \in 1..2
  /\ TimerGet("st") = 3

\* C29 (checked under ClockSpec): a start() while a loop exists spawns
\* nothing and keeps the channel, the loop and the timers as they are, so
\* there is never a second loop, and within one tick interval each registered
\* Timer is ticked at most once.
C29_SingleLoop ==
  /\ [][(Start /\ LoopAlive)
          => UNCHANGED <<tx, handle, chan, connected, clk, timer>>]_vars
  /\ [](\A t \in TimerIds : round[t] <= 1)

\* the clock is Running with a command queued and its loop in the middle of
\* a round of ticks (the first timer ticked, the second being exchanged),
\* where start() can be called
C29_Witness ==
  /\ api = "idle" /\ AlreadyStarted
  /\ clk.pc = "cas" /\ clk.i = 2
  /\ round["dt"] = 1 /\ round["st"] = 0
  /\ chan # <<>>

(***************************************************************************)
(* Claims about the keyboard (checked under KeySpec)                       *)
(***************************************************************************)
\* C19: after set_pressed(keys), whatever was set before, is_key_pressed(k)
\* holds for k in 0..15 iff k is one of keys, and get_key_press is None iff
\* no key is pressed and the smallest pressed key otherwise.
C19_ReplaceAll ==
  /\ \A k \in 0..15 : IsKeyPressed(keyboard, k) <=> k \in pressed_keys
  /\ (GetKeyPress(keyboard) = None) <=> (\A k \in 0..15 : ~IsKeyPressed(keyboard, k))
  /\ pressed_keys # {} =>
       /\ GetKeyPress(keyboard).some
       /\ GetKeyPress(keyboard).val \in pressed_keys
       /\ \A k \in pressed_keys : GetKeyPress(keyboard).val <= k

\* keys 3 and 12 are down and key 0 is not: the first pressed key is 3
C19_Witness ==
  /\ pressed_keys = {3, 12}
  /\ ~IsKeyPressed(keyboard, 0)
  /\ IsKeyPressed(keyboard, 12)
  /\ GetKeyPress(keyboard) = Some(3)

====
